---- MODULE Spec2Model ----
(***************************************************************************)
(* Model of the trading knowledge base: the parallel ingestion script that *)
(* fills the FAISS index and the JSONL catalog, the VectorSearchTool that  *)
(* reads them, the short-term memory (STM) and the long-term memory (LTM). *)
(***************************************************************************)
EXTENDS Integers, Sequences, FiniteSets, TLC

VARIABLES
    \* ---- scripts/extract_and_index.py and the files it persists
    run,             \* number of ingestion processes started so far
    main_pc,         \* position of the main thread of the current process
    task,            \* per paper: the worker's position, abstract and future
    write_lock,      \* holder of write_lock (0 = free)
    catalog_file,    \* arxiv_id_mapping.jsonl, one record per line
    index_file,      \* arxiv_faiss.index
    embeddings,      \* the main thread's list `embeddings`
    initial_done,    \* futures already finished when as_completed started
    completed,       \* futures in the order they finished
    yielded,         \* futures as_completed has handed to the main thread
    \* ---- VectorSearchTool.__init__ (a reader process)
    reader_pc,
    reader_index,
    reader_mapping,
    \* ---- memory/STM.py
    max_entries,          \* STM.max_entries
    conversation_buffer,  \* STM.conversation_buffer
    current_context,      \* STM.current_context
    now,                  \* the clock read by time.time() and utcnow()
    n_added,              \* number of add_interaction calls so far
    temp_set,             \* per temp key: the set_temp_data call its slot holds
    ctx_set,              \* the update_context calls since the last clear_context
    snap,                 \* the dict get_state returned last, held by the caller
    stm_ret,              \* outcome of the last STM operation
    \* ---- memory/LTM.py (table conversation_history)
    ltm_rows,             \* the rows, in insertion order
    ltm_next_id,          \* next value of the SERIAL id
    db_up,                \* whether the store can be reached
    ltm_ret,              \* outcome of the last LTM operation
    ltm_prev,             \* outcome of the query before it, same content
    cache_dir,            \* LTM.dir: the text of <paper_id>.txt for each file in it
    cache_ret,            \* outcome of the last paper cache operation
    first_cached,         \* per paper id: the text of its first cache_paper call
    \* ---- VectorSearchTool._run
    search_ret,           \* outcome of the last query
    \* ---- src/core.py (TradingKnowledgeBase)
    enable_memory         \* TradingKnowledgeBase.enable_memory

ingestVars == <<run, main_pc, task, write_lock, catalog_file, index_file,
                embeddings, initial_done, completed, yielded>>
readerVars == <<reader_pc, reader_index, reader_mapping>>
stmVars == <<max_entries, conversation_buffer, current_context, now, n_added,
             temp_set, ctx_set, snap, stm_ret>>
ltmVars == <<ltm_rows, ltm_next_id, db_up, ltm_ret, ltm_prev>>
memVars == <<stmVars, ltmVars>>
extVars == <<cache_dir, cache_ret, first_cached, search_ret, enable_memory>>
vars == <<ingestVars, readerVars, memVars, extVars>>

\* ------------------------------------------------------------------ bounds
NPapers == 2
MaxRuns == 2

\* ------------------------------------------------------- program constants
MAX_WORKERS == 8
MinAbstractLen == 20

Papers == 1..NPapers

\* Lengths the extracted abstract can have (around the threshold), 0 = ''.
AbstractLens == {0, MinAbstractLen - 1, MinAbstractLen}

\* The abstract text extracted for paper p with n characters.
Text(p, n) == [doc |-> p, len |-> n]
NoText == [doc |-> 0, len |-> 0]

\* model.encode(abstract): the embedding of a text (a function of the text only).
ModelEncode(abstract) == [emb_of |-> abstract]

\* json.dumps({'id': arxiv_id, 'abstract': abstract})
CatalogLine(arxiv_id, abstract) == [id |-> arxiv_id, abstract |-> abstract]

NoIndex == [exists |-> FALSE, vectors |-> <<>>]

Queued == [pc |-> "queued", abstract |-> NoText, result |-> "pending"]
Finished(res, abstract) == [pc |-> "done", abstract |-> abstract, result |-> res]

Running == {p \in Papers : task[p].pc \notin {"queued", "done"}}

ProcessAlive == main_pc \in {"submitted", "iterating", "aborting"}

InitIngest ==
    /\ run = 0
    /\ main_pc = "idle"
    /\ task = [p \in Papers |-> Queued]
    /\ write_lock = 0
    /\ catalog_file = <<>>
    /\ index_file = NoIndex
    /\ embeddings = <<>>
    /\ initial_done = {}
    /\ completed = <<>>
    /\ yielded = {}

InitReader ==
    /\ reader_pc = "new"
    /\ reader_index = NoIndex
    /\ reader_mapping = <<>>

\* ---------------------------------------------------------- main thread
\* A new process runs the script: lines 20-21, 46-53, 75-77 (all papers are
\* submitted to the executor). The two files stay as the last process left them.
StartRun ==
    /\ main_pc \in {"idle", "done", "crashed"}
    /\ run < MaxRuns
    /\ run' = run + 1
    /\ main_pc' = "submitted"
    /\ task' = [p \in Papers |-> Queued]
    /\ write_lock' = 0
    /\ embeddings' = <<>>
    /\ initial_done' = {}
    /\ completed' = <<>>
    /\ yielded' = {}
    /\ UNCHANGED <<catalog_file, index_file, readerVars, memVars, extVars>>

\* as_completed(futures) starts: the futures that are finished by now are
\* yielded first, in no particular order (it keeps them in a set).
AsCompletedStart ==
    /\ main_pc = "submitted"
    /\ initial_done' = {p \in Papers : task[p].pc = "done"}
    /\ main_pc' = "iterating"
    /\ UNCHANGED <<run, task, write_lock, catalog_file, index_file, embeddings,
                   completed, yielded, readerVars, memVars, extVars>>

\* The futures that finished after as_completed started, in finishing order.
LaterDone == SelectSeq(completed, LAMBDA p : p \notin initial_done /\ p \notin yielded)

CanYield(p) ==
    /\ p \notin yielded
    /\ \/ p \in initial_done
       \/ /\ initial_done \subseteq yielded
          /\ LaterDone # <<>>
          /\ p = Head(LaterDone)

\* One iteration of the loop of lines 78-81: emb = future.result().
CollectFuture(p) ==
    /\ main_pc = "iterating"
    /\ CanYield(p)
    /\ yielded' = yielded \cup {p}
    /\ main_pc' = IF task[p].result = "exc" THEN "aborting" ELSE "iterating"
    /\ embeddings' = IF task[p].result = "emb"
                        THEN Append(embeddings, ModelEncode(task[p].abstract))
                        ELSE embeddings
    /\ UNCHANGED <<run, task, write_lock, catalog_file, index_file,
                   initial_done, completed, readerVars, memVars, extVars>>

\* Lines 83-90, after the loop has seen every future.
WriteIndex ==
    /\ main_pc = "iterating"
    /\ yielded = Papers
    /\ index_file' = IF embeddings # <<>>
                        THEN [exists |-> TRUE, vectors |-> embeddings]
                        ELSE index_file
    /\ main_pc' = "done"
    /\ UNCHANGED <<run, task, write_lock, catalog_file, embeddings,
                   initial_done, completed, yielded, readerVars, memVars, extVars>>

\* future.result() re-raised a worker's exception: the with-block of line 76
\* waits for the workers that are left, then the process dies before line 83.
AbortRun ==
    /\ main_pc = "aborting"
    /\ \A p \in Papers : task[p].pc = "done"
    /\ main_pc' = "crashed"
    /\ UNCHANGED <<run, task, write_lock, catalog_file, index_file, embeddings,
                   initial_done, completed, yielded, readerVars, memVars, extVars>>

\* ------------------------------------------------- worker: process_paper
FutureDone(p, res, abstract) ==
    /\ task' = [task EXCEPT ![p] = Finished(res, abstract)]
    /\ completed' = Append(completed, p)

\* Lines 56-60: download_pdf_to_memory returns the bytes or None.
Download(p) ==
    /\ ProcessAlive
    /\ task[p].pc = "queued"
    /\ Cardinality(Running) < MAX_WORKERS
    /\ \E ok \in BOOLEAN :
          IF ok
             THEN /\ task' = [task EXCEPT ![p].pc = "downloaded"]
                  /\ UNCHANGED completed
             ELSE FutureDone(p, "None", NoText)
    /\ UNCHANGED <<run, main_pc, write_lock, catalog_file, index_file,
                   embeddings, initial_done, yielded, readerVars, memVars, extVars>>

\* Lines 61-63: extract_abstract_from_memory returns a text or None
\* (found = FALSE); `not abstract or len(abstract) < 20` returns None.
ExtractAbstract(p) ==
    /\ task[p].pc = "downloaded"
    /\ \E found \in BOOLEAN, n \in AbstractLens :
          IF (~found) \/ n = 0 \/ n < MinAbstractLen
             THEN FutureDone(p, "None", NoText)
             ELSE /\ task' = [task EXCEPT ![p] =
                                 [pc |-> "extracted", abstract |-> Text(p, n),
                                  result |-> "pending"]]
                  /\ UNCHANGED completed
    /\ UNCHANGED <<run, main_pc, write_lock, catalog_file, index_file,
                   embeddings, initial_done, yielded, readerVars, memVars, extVars>>

\* Line 64: emb = model.encode(abstract); an exception leaves process_paper.
Encode(p) ==
    /\ task[p].pc = "extracted"
    /\ \E ok \in BOOLEAN :
          IF ok
             THEN /\ task' = [task EXCEPT ![p].pc = "embedded"]
                  /\ UNCHANGED completed
             ELSE FutureDone(p, "exc", NoText)
    /\ UNCHANGED <<run, main_pc, write_lock, catalog_file, index_file,
                   embeddings, initial_done, yielded, readerVars, memVars, extVars>>

\* Line 66: with write_lock
AcquireWriteLock(p) ==
    /\ task[p].pc = "embedded"
    /\ write_lock = 0
    /\ write_lock' = p
    /\ task' = [task EXCEPT ![p].pc = "locked"]
    /\ UNCHANGED <<run, main_pc, catalog_file, index_file, embeddings,
                   initial_done, completed, yielded, readerVars, memVars, extVars>>

\* Lines 67-68: the line is appended to the mapping file, the lock released.
WriteMapping(p) ==
    /\ task[p].pc = "locked"
    /\ write_lock = p
    /\ catalog_file' = Append(catalog_file, CatalogLine(p, task[p].abstract))
    /\ write_lock' = 0
    /\ task' = [task EXCEPT ![p].pc = "written"]
    /\ UNCHANGED <<run, main_pc, index_file, embeddings, initial_done,
                   completed, yielded, readerVars, memVars, extVars>>

\* Line 69: return emb; the future finishes.
ReturnEmb(p) ==
    /\ task[p].pc = "written"
    /\ FutureDone(p, "emb", task[p].abstract)
    /\ UNCHANGED <<run, main_pc, write_lock, catalog_file, index_file,
                   embeddings, initial_done, yielded, readerVars, memVars, extVars>>

\* ------------------------------------------ reader: VectorSearchTool.__init__
\* Line 37: faiss.read_index; a missing file raises and the tool keeps
\* index = None, mapping = {} (lines 39-42).
ReaderReadIndex ==
    /\ reader_pc = "new"
    /\ IF index_file.exists
          THEN /\ reader_index' = index_file
               /\ reader_pc' = "index_loaded"
          ELSE /\ reader_index' = NoIndex
               /\ reader_pc' = "uninitialized"
    /\ UNCHANGED <<reader_mapping, ingestVars, memVars, extVars>>

\* A line of the catalog file that json.loads rejects (cut short or blank).
MalformedLine == [id |-> 0, abstract |-> NoText]
WellFormed(line) == line # MalformedLine

\* str(idx)
Str(idx) == ToString(idx)

\* A loader that numbers the lines it keeps (a skipped line shifts the rest).
LoadNdjsonMappingShifted(lines) ==
    LET kept == SelectSeq(lines, WellFormed)
    IN [key \in {Str(idx) : idx \in 0..(Len(kept) - 1)} |->
           kept[(CHOOSE idx \in 0..(Len(kept) - 1) : Str(idx) = key) + 1]]

\* _load_ndjson_mapping, lines 46-57: enumerate counts every line (from 0); a
\* line that does not parse is left out; a missing file gives {}.
LoadNdjsonMapping(lines) ==
    LET good == {idx \in 0..(Len(lines) - 1) : WellFormed(lines[idx + 1])}
    IN [key \in {Str(idx) : idx \in good} |->
           lines[(CHOOSE idx \in good : Str(idx) = key) + 1]]

\* Line 38: self.mapping = self._load_ndjson_mapping('arxiv_id_mapping.jsonl')
ReaderLoadMapping ==
    /\ reader_pc = "index_loaded"
    /\ reader_mapping' = LoadNdjsonMapping(catalog_file)
    /\ reader_pc' = "ready"
    /\ UNCHANGED <<reader_index, ingestVars, memVars, extVars>>

\* ------------------------------------------------ VectorSearchTool._run
\* ------------------------------------------------------------------ bounds
MaxLines == 2       \* lines of the catalog file the tool is started on
MaxVectors == 2     \* vectors of the index file the tool is started on
MaxK == 3           \* largest num_results passed to a query

Queries == {"alpha", "beta"}

\* The embeddings lie on a line: document p at 2p, the queries at 1 and 3
\* (so "beta" is as far from document 1 as from document 2).
VectorCoord(v) == 2 * v.emb_of.doc
EncodeQuery(query) == IF query = "alpha" THEN 1 ELSE 3

\* IndexFlatL2 reports the squared L2 distance.
SquaredL2(x, y) == (x - y) * (x - y)

\* The label and the distance with which index.search fills the places for
\* which the index has no vector left.
PadLabel == -1
PadDistance == 1000
PadHit == [idx |-> PadLabel, distance |-> PadDistance]

\* An index scan that ignores the distances (positions in index order).
IndexSearchUnsorted(vectors, x, k) ==
    {[i \in 1..k |-> IF i <= Len(vectors)
                        THEN [idx |-> i - 1,
                              distance |-> SquaredL2(VectorCoord(vectors[i]), x)]
                        ELSE PadHit]}

\* Line 69: D, I = self.index.search(query_embedding, num_results): the
\* min(k, ntotal) nearest positions (0-based) by non-decreasing distance, in
\* any order among equal distances, then padding up to k places.
IndexSearch(vectors, x, k) ==
    LET n == Len(vectors)
        m == IF k < n THEN k ELSE n
        Dist(pos) == SquaredL2(VectorCoord(vectors[pos + 1]), x)
        orders == {o \in [1..n -> 0..(n - 1)] :
                     /\ \A i, j \in 1..n : i # j => o[i] # o[j]
                     /\ \A i, j \in 1..n : i < j => Dist(o[i]) <= Dist(o[j])}
    IN {[i \in 1..k |-> IF i <= m THEN [idx |-> o[i], distance |-> Dist(o[i])]
                                   ELSE PadHit] : o \in orders}

\* Lines 77-85: one entry of `results` (the catalog lines carry no title and
\* no authors, so .get gives 'Unknown').
PaperResult(i, hit, paper_info) ==
    [rank |-> i + 1,
     arxiv_id |-> paper_info.id,
     title |-> "Unknown",
     authors |-> "Unknown",
     abstract |-> paper_info.abstract,
     url |-> <<"https://arxiv.org/pdf/", paper_info.id>>,
     similarity_score |-> 1 - hit.distance]

\* Lines 72-85: the loop over enumerate(zip(D[0], I[0])).
Results(hits, mapping) ==
    LET numbered == [n \in 1..Len(hits) |-> [i |-> n - 1, hit |-> hits[n]]]
        kept == SelectSeq(numbered, LAMBDA e : Str(e.hit.idx) \in DOMAIN mapping)
    IN [j \in 1..Len(kept) |->
           PaperResult(kept[j].i, kept[j].hit, mapping[Str(kept[j].hit.idx)])]

\* The JSON document of lines 88-92 / the strings of lines 62 and 95.
SearchJson(query, k, hits, results) ==
    [op |-> "_run", kind |-> "json", query |-> query, k |-> k, hits |-> hits,
     num_results |-> Len(results), papers |-> results]
SearchError(query, k, message) ==
    [op |-> "_run", kind |-> message, query |-> query, k |-> k, hits |-> <<>>,
     num_results |-> 0, papers |-> <<>>]

\* _run, lines 61-95, on a tool whose __init__ has ended.
Run(query, num_results) ==
    /\ reader_pc \in {"ready", "uninitialized"}
    /\ IF (~reader_index.exists) \/ DOMAIN reader_mapping = {}
          THEN search_ret' = SearchError(query, num_results,
                                 "Error: Vector database not properly initialized")
          ELSE \E hits \in IndexSearch(reader_index.vectors, EncodeQuery(query),
                                        num_results) :
                  search_ret' = SearchJson(query, num_results, hits,
                                           Results(hits, reader_mapping))
    /\ UNCHANGED <<cache_dir, cache_ret, first_cached, enable_memory, readerVars, ingestVars,
                   memVars>>

\* The two files as earlier runs of the ingestion scripts left them, when the
\* tool is started: the catalog (possibly absent, possibly with a line cut
\* short) and the index (absent, or with at least one vector: line 83).
SeqsUpTo(S, n) == UNION {[1..m -> S] : m \in 0..n}
CatalogFiles ==
    SeqsUpTo({CatalogLine(p, Text(p, MinAbstractLen)) : p \in Papers}
                \cup {MalformedLine}, MaxLines)
IndexFiles ==
    {NoIndex} \cup
    {[exists |-> TRUE, vectors |-> vs] :
        vs \in SeqsUpTo({ModelEncode(Text(p, MinAbstractLen)) : p \in Papers},
                        MaxVectors) \ {<<>>}}

InitFiles ==
    /\ run = 0
    /\ main_pc = "idle"
    /\ task = [p \in Papers |-> Queued]
    /\ write_lock = 0
    /\ catalog_file \in CatalogFiles
    /\ index_file \in IndexFiles
    /\ embeddings = <<>>
    /\ initial_done = {}
    /\ completed = <<>>
    /\ yielded = {}

NextSearch ==
    \/ ReaderReadIndex
    \/ ReaderLoadMapping
    \/ \E query \in Queries, num_results \in 1..MaxK : Run(query, num_results)

NextIngest ==
    \/ StartRun
    \/ AsCompletedStart
    \/ \E p \in Papers : CollectFuture(p)
    \/ WriteIndex
    \/ AbortRun
    \/ \E p \in Papers : Download(p)
    \/ \E p \in Papers : ExtractAbstract(p)
    \/ \E p \in Papers : Encode(p)
    \/ \E p \in Papers : AcquireWriteLock(p)
    \/ \E p \in Papers : WriteMapping(p)
    \/ \E p \in Papers : ReturnEmb(p)
    \/ ReaderReadIndex
    \/ ReaderLoadMapping


\* ======================================================== memory/STM.py
\* ------------------------------------------------------------------ bounds
MaxEntriesBound == 2     \* max_entries is drawn from 0..MaxEntriesBound
MaxAdds == 3             \* add_interaction calls in one session
MaxTime == 3             \* clock ticks
MaxRows == 2             \* rows ever inserted into conversation_history
MaxLimit == 2            \* largest `limit` passed to a query

\* ------------------------------------------------------- program constants
DefaultMaxEntries == 10

\* Keys passed to set_temp_data / get_temp_data.
Keys == {"k"}
\* f"_temp_{key}"
TempSlot(key) == "_temp_" \o key
\* Keys passed to update_context / get_context (any string is allowed).
CtxKeys == Keys \cup {TempSlot(k) : k \in Keys}
\* Values stored; 0 is a falsy one.
Values == {0, 1}
\* Defaults handed to get_temp_data / get_context, distinct from every value.
Defaults == {-1, -2}
TTLs == {0, 1, 2}

\* The texts of the n-th add_interaction call (as in test_max_entries_limit).
UserText(n) == "User " \o ToString(n)
AssistantText(n) == "Assistant " \o ToString(n)

\* Python's s[-n:]
PySuffix(s, n) ==
    IF n > 0 THEN (IF n >= Len(s) THEN s ELSE SubSeq(s, Len(s) - n + 1, Len(s)))
    ELSE IF n = 0 THEN s
    ELSE SubSeq(s, (-n) + 1, Len(s))

\* A mistaken truncation: the oldest entries are kept (s[:n]).
KeepOldest(buffer, n) == SubSeq(buffer, 1, IF n < Len(buffer) THEN n ELSE Len(buffer))

\* Line 36: self.conversation_buffer[-self.max_entries:]
Truncate(buffer, n) == PySuffix(buffer, n)

\* `metadata or {}`
MetaOrEmpty(metadata) == IF metadata \in {"None", "{}"} THEN "{}" ELSE metadata

Interaction(user_input, ai_response, metadata, t) ==
    [user |-> user_input, assistant |-> ai_response, timestamp |-> t,
     metadata |-> MetaOrEmpty(metadata)]

\* Entries of current_context: a plain value, or the dict set_temp_data stores.
Plain(v) == [kind |-> "plain", value |-> v, expires_at |-> 0]
TempEntry(v, e) == [kind |-> "dict", value |-> v, expires_at |-> e]
EmptyDict == [x \in {} |-> Plain(0)]
\* A mistaken update_context: a key that is set keeps its first value.
DictSetDefault(d, k, v) == [x \in (DOMAIN d) \cup {k} |-> IF x \in DOMAIN d THEN d[x] ELSE v]

\* d[k] = v
DictSet(d, k, v) == [x \in (DOMAIN d) \cup {k} |-> IF x = k THEN v ELSE d[x]]

\* Python truth value of an entry: a non-empty dict is true, 0 is false.
Truthy(entry) == entry.kind = "dict" \/ entry.value # 0

\* What temp_set tracks for a key whose slot holds no set_temp_data entry.
Untracked(state) == [state |-> state, value |-> 0, t |-> 0, ttl |-> 0]

NoRet == [op |-> "none"]

\* What ctx_set holds when update_context was not called since the last clear.
NoCalls == [x \in {} |-> 0]

\* The dict returned by get_state, as its holder sees it: `buffer` and
\* `context` are the present contents of the list and of the dict it refers
\* to, same_list / same_dict tell whether these are the very objects that
\* self.conversation_buffer / self.current_context refer to, and orig_* are
\* the contents at the time get_state returned.
NoSnap == [taken |-> FALSE, buffer |-> <<>>, context |-> EmptyDict,
           same_list |-> FALSE, same_dict |-> FALSE,
           orig_buffer |-> <<>>, orig_context |-> EmptyDict]

\* Lines 29-36 seen from the snapshot: append changes the list in place, the
\* assignment of the slice then makes self.conversation_buffer a new list.
SnapAppend(entry) ==
    IF snap.same_list
       THEN [snap EXCEPT !.buffer = Append(@, entry), !.same_list = FALSE]
       ELSE snap

\* self.current_context[key] = entry changes the dict in place.
SnapSetItem(key, entry) ==
    IF snap.same_dict
       THEN [snap EXCEPT !.context =
                [x \in (DOMAIN @) \cup {key} |-> IF x = key THEN entry ELSE @[x]]]
       ELSE snap

InitSTM(m) ==
    /\ max_entries = m
    /\ conversation_buffer = <<>>
    /\ current_context = EmptyDict
    /\ now = 0
    /\ n_added = 0
    /\ temp_set = [k \in Keys |-> Untracked("unset")]
    /\ ctx_set = NoCalls
    /\ snap = NoSnap
    /\ stm_ret = NoRet

\* ======================================================== memory/LTM.py
\* Question embeddings (VECTOR column), on a grid where all distances are integers.
Embeddings == {<<0, 0>>, <<3, 0>>, <<0, 4>>}
MaxDistances == {0, 4}

ConversationRow(id, e, q, a, src, t) ==
    [id |-> id, question_embedding |-> e, question_text |-> q,
     answer_text |-> a, timestamp |-> t, source_paper_ids |-> src]

InitLTM ==
    /\ ltm_rows = <<>>
    /\ ltm_next_id = 1
    /\ db_up = TRUE
    /\ ltm_ret = NoRet
    /\ ltm_prev = NoRet

\* add_conversation_entry swallowing the failure (returns None).
AddOutcomeSwallow == IF db_up THEN [kind |-> "ok", val |-> ltm_next_id]
                              ELSE [kind |-> "returned_none", val |-> 0]

\* Lines 104-113: the id of RETURNING id, or the exception re-raised.
AddOutcome == IF db_up THEN [kind |-> "ok", val |-> ltm_next_id]
                       ELSE [kind |-> "raise", val |-> 0]

\* The INSERT of lines 98-111.
InsertRow(e, q, a, src) ==
    IF db_up THEN Append(ltm_rows, ConversationRow(ltm_next_id, e, q, a, src, now))
             ELSE ltm_rows

AddCall(e, q, a, src) ==
    [question_embedding |-> e, question_text |-> q, answer_text |-> a,
     source_paper_ids |-> src]

\* The effect of one add_conversation_entry call on the LTM variables.
LTMAdd(e, q, a, src) ==
    /\ ltm_rows' = InsertRow(e, q, a, src)
    /\ ltm_next_id' = IF db_up THEN ltm_next_id + 1 ELSE ltm_next_id
    /\ ltm_ret' = [op |-> "add_conversation_entry", call |-> AddCall(e, q, a, src),
                   reachable |-> db_up, kind |-> AddOutcome.kind,
                   val |-> AddOutcome.val]
    /\ ltm_prev' = NoRet
    /\ UNCHANGED db_up

\* ------------------------------------------------------- STM operations
\* add_interaction, lines 29-36.
AddInteraction(metadata) ==
    /\ n_added < MaxAdds
    /\ n_added' = n_added + 1
    /\ conversation_buffer' =
          Truncate(Append(conversation_buffer,
                          Interaction(UserText(n_added + 1), AssistantText(n_added + 1),
                                      metadata, now)),
                   max_entries)
    /\ snap' = SnapAppend(Interaction(UserText(n_added + 1), AssistantText(n_added + 1),
                                      metadata, now))
    /\ stm_ret' = [op |-> "add_interaction"]
    /\ UNCHANGED <<max_entries, ctx_set, current_context, now, temp_set, ltmVars,
                   ingestVars, readerVars, extVars>>

\* update_context, line 40. Writing a temp slot replaces what set_temp_data put there.
UpdateContext(key, value) ==
    /\ current_context' = DictSet(current_context, key, Plain(value))
    /\ temp_set' = [k \in Keys |-> IF TempSlot(k) = key THEN Untracked("other")
                                                        ELSE temp_set[k]]
    /\ ctx_set' = [x \in (DOMAIN ctx_set) \cup {key} |->
                       IF x = key THEN value ELSE ctx_set[x]]
    /\ snap' = SnapSetItem(key, Plain(value))
    /\ stm_ret' = [op |-> "update_context"]
    /\ UNCHANGED <<max_entries, conversation_buffer, now, n_added, ltmVars,
                   ingestVars, readerVars, extVars>>

\* get_context, lines 51-53: key is "None" for the whole mapping.
GetContext(key, default) ==
    /\ stm_ret' = IF key = "None"
                     THEN [op |-> "get_context", key |-> key, default |-> default,
                           kind |-> "dict", val |-> current_context]
                  ELSE IF key \in DOMAIN current_context
                     THEN [op |-> "get_context", key |-> key, default |-> default,
                           kind |-> "entry", val |-> current_context[key]]
                  ELSE [op |-> "get_context", key |-> key, default |-> default,
                        kind |-> "default", val |-> default]
    /\ UNCHANGED <<max_entries, ctx_set, snap, conversation_buffer, current_context, now,
                   n_added, temp_set, ltmVars, ingestVars, readerVars, extVars>>

\* clear_context, line 57.
ClearContext ==
    /\ current_context' = EmptyDict
    /\ temp_set' = [k \in Keys |-> Untracked("unset")]
    /\ ctx_set' = NoCalls
    /\ snap' = [snap EXCEPT !.same_dict = FALSE]
    /\ stm_ret' = [op |-> "clear_context"]
    /\ UNCHANGED <<max_entries, conversation_buffer, now, n_added, ltmVars,
                   ingestVars, readerVars, extVars>>

\* get_recent_history, line 67.
GetRecentHistory(n) ==
    /\ stm_ret' = [op |-> "get_recent_history", val |-> PySuffix(conversation_buffer, n)]
    /\ UNCHANGED <<max_entries, ctx_set, snap, conversation_buffer, current_context, now,
                   n_added, temp_set, ltmVars, ingestVars, readerVars, extVars>>

\* get_formatted_history, lines 75-78 (the lines that are joined by "\n").
FormattedHistory(buffer) ==
    [i \in 1..Len(buffer) |->
        "User: " \o buffer[i].user \o "\nAssistant: " \o buffer[i].assistant]

GetFormattedHistory ==
    /\ stm_ret' = [op |-> "get_formatted_history",
                   val |-> FormattedHistory(conversation_buffer)]
    /\ UNCHANGED <<max_entries, ctx_set, snap, conversation_buffer, current_context, now,
                   n_added, temp_set, ltmVars, ingestVars, readerVars, extVars>>

\* Line 90: time.time() + ttl
ExpiresAt(t, ttl) == t + ttl

\* set_temp_data, lines 88-91.
SetTempData(key, value, ttl) ==
    /\ current_context' = DictSet(current_context, TempSlot(key),
                                  TempEntry(value, ExpiresAt(now, ttl)))
    /\ temp_set' = [temp_set EXCEPT ![key] =
                       [state |-> "set", value |-> value, t |-> now, ttl |-> ttl]]
    /\ snap' = SnapSetItem(TempSlot(key), TempEntry(value, ExpiresAt(now, ttl)))
    /\ stm_ret' = [op |-> "set_temp_data"]
    /\ UNCHANGED <<max_entries, ctx_set, conversation_buffer, now, n_added, ltmVars,
                   ingestVars, readerVars, extVars>>

\* An expiry test that is not strict.
NotExpiredAtExpiry(entry, t) == entry.expires_at >= t

\* Line 103: temp_data['expires_at'] > time.time()
NotExpired(entry, t) == entry.expires_at > t

\* The outcome of get_temp_data, lines 102-105.
TempOutcome(key, default) ==
    IF TempSlot(key) \notin DOMAIN current_context
       THEN [kind |-> "ok", val |-> default]
    ELSE LET temp_data == current_context[TempSlot(key)] IN
         IF ~Truthy(temp_data) THEN [kind |-> "ok", val |-> default]
         ELSE IF temp_data.kind # "dict" THEN [kind |-> "raise", val |-> 0]
         ELSE IF NotExpired(temp_data, now) THEN [kind |-> "ok", val |-> temp_data.value]
         ELSE [kind |-> "ok", val |-> default]

\* Lines 102-105 assign nothing: the mapping after get_temp_data(key).
ContextAfterRead(context, key, t) == context

GetTempData(key, default) ==
    /\ stm_ret' = [op |-> "get_temp_data", key |-> key, default |-> default,
                   at |-> now, kind |-> TempOutcome(key, default).kind,
                   val |-> TempOutcome(key, default).val]
    /\ current_context' = ContextAfterRead(current_context, key, now)
    /\ UNCHANGED <<max_entries, ctx_set, snap, conversation_buffer, now,
                   n_added, temp_set, ltmVars, ingestVars, readerVars, extVars>>

\* The embeddings handed to promote_to_ltm.
PromoteEmbeddings == {e \in Embeddings : e[2] = 0}
\* The metadata handed to promote_to_ltm: None, {} or a dict with the key.
PromoteMetas == {"None", "{}", "{source_paper_ids}"}
\* Line 129: metadata.get('source_paper_ids', []) if metadata else []
SourcePaperIds(metadata) ==
    IF metadata \in {"None", "{}"} THEN <<>> ELSE <<"paper1">>

\* Promotion of the oldest interaction instead of the most recent one.
FirstInteraction(buffer) == buffer[1]

\* Line 122: self.conversation_buffer[-1]
LastInteraction(buffer) == buffer[Len(buffer)]

\* promote_to_ltm, lines 118-130.
PromoteToLtm(embedding, metadata) ==
    /\ Len(ltm_rows) < MaxRows
    /\ IF conversation_buffer = <<>>
          THEN /\ stm_ret' = [op |-> "promote_to_ltm", embedding |-> embedding,
                              kind |-> "returned_none", val |-> 0, calls |-> <<>>]
               /\ UNCHANGED ltmVars
          ELSE LET last_interaction == LastInteraction(conversation_buffer)
                   q == last_interaction.user
                   a == last_interaction.assistant
                   src == SourcePaperIds(metadata)
               IN /\ LTMAdd(embedding, q, a, src)
                  /\ stm_ret' = [op |-> "promote_to_ltm", embedding |-> embedding,
                                 kind |-> AddOutcome.kind, val |-> AddOutcome.val,
                                 calls |-> <<AddCall(embedding, q, a, src)>>]
    /\ UNCHANGED <<max_entries, ctx_set, snap, conversation_buffer, current_context, now,
                   n_added, temp_set, ingestVars, readerVars, extVars>>

\* Time passes.
Tick ==
    /\ now < MaxTime
    /\ now' = now + 1
    /\ UNCHANGED <<max_entries, ctx_set, snap, conversation_buffer, current_context, n_added,
                   temp_set, stm_ret, ltmVars, ingestVars, readerVars, extVars>>

\* The store becomes unreachable / reachable again.
DbFail ==
    /\ db_up
    /\ db_up' = FALSE
    /\ UNCHANGED <<ltm_rows, ltm_next_id, ltm_ret, ltm_prev, stmVars, ingestVars,
                   readerVars, extVars>>

DbRecover ==
    /\ ~db_up
    /\ db_up' = TRUE
    /\ UNCHANGED <<ltm_rows, ltm_next_id, ltm_ret, ltm_prev, stmVars, ingestVars,
                   readerVars, extVars>>

\* ------------------------------------------------------- LTM operations
\* add_conversation_entry called directly, lines 82-113.
AddConversationEntry(e, q, a, src) ==
    /\ ltm_next_id <= MaxRows
    /\ LTMAdd(e, q, a, src)
    /\ UNCHANGED <<stmVars, ingestVars, readerVars, extVars>>

\* delete_conversation, lines 213-219: rowcount > 0, or False on an exception.
DeleteConversation(conversation_id) ==
    /\ ltm_rows' = IF db_up
                      THEN SelectSeq(ltm_rows, LAMBDA r : r.id # conversation_id)
                      ELSE ltm_rows
    /\ ltm_ret' = [op |-> "delete_conversation", id |-> conversation_id,
                   reachable |-> db_up,
                   val |-> db_up /\ \E i \in 1..Len(ltm_rows) :
                                       ltm_rows[i].id = conversation_id]
    /\ ltm_prev' = NoRet
    /\ UNCHANGED <<ltm_next_id, db_up, stmVars, ingestVars, readerVars, extVars>>

\* The <-> operator of pgvector: Euclidean distance.
RECURSIVE SumSq(_, _, _)
SumSq(a, b, i) ==
    IF i = 0 THEN 0 ELSE (a[i] - b[i]) * (a[i] - b[i]) + SumSq(a, b, i - 1)
ISqrt(n) == CHOOSE r \in 0..n : r * r = n
L2Distance(a, b) == ISqrt(SumSq(a, b, Len(a)))

\* WHERE question_embedding <-> %s <= %s  (positions in ltm_rows)
Qualifying(q, max_distance) ==
    {i \in 1..Len(ltm_rows) :
        L2Distance(ltm_rows[i].question_embedding, q) <= max_distance}

\* ORDER BY distance ASC: every order of the rows that is sorted by distance;
\* SQL leaves the order of rows at the same distance open.
SortedOrders(S, q) ==
    {o \in [1..Cardinality(S) -> S] :
        /\ \A i, j \in 1..Cardinality(S) : i # j => o[i] # o[j]
        /\ \A i, j \in 1..Cardinality(S) :
              i < j => L2Distance(ltm_rows[o[i]].question_embedding, q)
                         <= L2Distance(ltm_rows[o[j]].question_embedding, q)}

\* The selected columns of one row, lines 130-131.
SimilarRecord(r, q) ==
    [id |-> r.id, question_text |-> r.question_text, answer_text |-> r.answer_text,
     source_paper_ids |-> r.source_paper_ids,
     distance |-> L2Distance(r.question_embedding, q)]

\* LIMIT %s
SqlLimit(o, limit) == SubSeq(o, 1, IF limit < Len(o) THEN limit ELSE Len(o))

\* get_similar_conversations, lines 129-149: the rows the query returns, or []
\* when the query raised.
GetSimilarConversations(q, max_distance, limit) ==
    /\ \E o \in SortedOrders(Qualifying(q, max_distance), q) :
          ltm_ret' = [op |-> "get_similar_conversations", q |-> q,
                      max_distance |-> max_distance, limit |-> limit,
                      reachable |-> db_up,
                      val |-> IF db_up
                                 THEN [i \in 1..Len(SqlLimit(o, limit)) |->
                                          SimilarRecord(ltm_rows[o[i]], q)]
                                 ELSE <<>>]
    /\ ltm_prev' = IF ltm_ret.op = "get_similar_conversations" THEN ltm_ret ELSE NoRet
    /\ UNCHANGED <<ltm_rows, ltm_next_id, db_up, stmVars, ingestVars, readerVars,
                   extVars>>

\* get_conversation_by_id, lines 166-175: the row as a dict, None when no
\* row has the id, and None as well when the query raised.
NoRow == [id |-> 0, question_text |-> "", answer_text |-> "",
          source_paper_ids |-> <<>>, timestamp |-> 0]
RowDict(r) == [id |-> r.id, question_text |-> r.question_text,
               answer_text |-> r.answer_text,
               source_paper_ids |-> r.source_paper_ids, timestamp |-> r.timestamp]

GetConversationById(conversation_id) ==
    /\ LET found == SelectSeq(ltm_rows, LAMBDA r : r.id = conversation_id)
       IN ltm_ret' = IF db_up /\ found # <<>>
                        THEN [op |-> "get_conversation_by_id", id |-> conversation_id,
                              reachable |-> db_up, kind |-> "dict",
                              val |-> RowDict(found[1])]
                        ELSE [op |-> "get_conversation_by_id", id |-> conversation_id,
                              reachable |-> db_up, kind |-> "None", val |-> NoRow]
    /\ ltm_prev' = NoRet
    /\ UNCHANGED <<ltm_rows, ltm_next_id, db_up, stmVars, ingestVars, readerVars,
                   extVars>>

\* get_recent_conversations, lines 187-200: ORDER BY timestamp DESC LIMIT
\* (rows with the same timestamp in any order), or [] when the query raised.
RecentOrders ==
    {o \in [1..Len(ltm_rows) -> 1..Len(ltm_rows)] :
        /\ \A i, j \in 1..Len(ltm_rows) : i # j => o[i] # o[j]
        /\ \A i, j \in 1..Len(ltm_rows) :
              i < j => ltm_rows[o[i]].timestamp >= ltm_rows[o[j]].timestamp}

RecentRecord(r) == [id |-> r.id, question_text |-> r.question_text,
                    answer_text |-> r.answer_text, timestamp |-> r.timestamp]

GetRecentConversations(limit) ==
    /\ \E o \in RecentOrders :
          ltm_ret' = [op |-> "get_recent_conversations", limit |-> limit,
                      reachable |-> db_up,
                      val |-> IF db_up
                                 THEN [i \in 1..Len(SqlLimit(o, limit)) |->
                                          RecentRecord(ltm_rows[o[i]])]
                                 ELSE <<>>]
    /\ ltm_prev' = NoRet
    /\ UNCHANGED <<ltm_rows, ltm_next_id, db_up, stmVars, ingestVars, readerVars,
                   extVars>>

\* ------------------------------------------------- LTM: the paper cache
PaperIds == {"p1", "p2"}

\* Line 240: the string returned for a paper that has no file.
NotFoundMessage(paper_id) == "requested file: " \o paper_id \o " not found in cache"

\* Texts handed to cache_paper (any string is a possible paper text).
CacheTexts == {"", "parsed text"} \cup {NotFoundMessage(paper_id) : paper_id \in PaperIds}

NoFiles == [x \in {} |-> ""]

\* What first_cached holds for a paper id cache_paper was never called with.
NotCached == [called |-> FALSE, text |-> ""]

\* Python values handed to os.path.join.
PyStr(x) == [type |-> "str", val |-> x]
SelfObject == [type |-> "LTM", val |-> "self"]
DirBuiltin == [type |-> "builtin_function_or_method", val |-> "dir"]

\* os.path.join: a TypeError unless every part is a str; the parts here name
\* a file of the one cache directory, so the path is given by the file name.
OsPathJoin(parts) ==
    IF \A i \in 1..Len(parts) : parts[i].type = "str"
       THEN [kind |-> "ok", path |-> parts[Len(parts)].val]
       ELSE [kind |-> "raise", path |-> ""]

\* Line 231: os.path.join(self,dir,paper_id+'.txt')
CachePaperPath(paper_id) ==
    OsPathJoin(<<SelfObject, DirBuiltin, PyStr(paper_id \o ".txt")>>)

\* Line 238: os.path.join(self.dir,paper_id+'.txt')
RetrievePath(paper_id) ==
    OsPathJoin(<<PyStr("self.dir"), PyStr(paper_id \o ".txt")>>)

\* cache_paper, lines 231-234 (the Redis key of line 234 is set after the
\* file is written).
CachePaper(paper_id, text) ==
    /\ LET filepath == CachePaperPath(paper_id) IN
       IF filepath.kind = "raise"
          THEN /\ cache_ret' = [op |-> "cache_paper", paper_id |-> paper_id,
                                text |-> text, kind |-> "raise", val |-> "",
                                cached |-> FALSE]
               /\ UNCHANGED cache_dir
          ELSE /\ cache_dir' = DictSet(cache_dir, filepath.path, text)
               /\ cache_ret' = [op |-> "cache_paper", paper_id |-> paper_id,
                                text |-> text, kind |-> "ok", val |-> "",
                                cached |-> TRUE]
    /\ first_cached' = IF first_cached[paper_id].called
                          THEN first_cached
                          ELSE [first_cached EXCEPT ![paper_id] =
                                   [called |-> TRUE, text |-> text]]
    /\ UNCHANGED <<search_ret, enable_memory, ingestVars, readerVars, memVars>>

\* retreive_paper_from_cache, lines 238-244.
RetreivePaperFromCache(paper_id) ==
    /\ LET filepath == RetrievePath(paper_id).path IN
       cache_ret' = [op |-> "retreive_paper_from_cache", paper_id |-> paper_id,
                     text |-> "", kind |-> "ok",
                     val |-> IF filepath \in DOMAIN cache_dir
                                THEN cache_dir[filepath]
                                ELSE NotFoundMessage(paper_id),
                     cached |-> filepath \in DOMAIN cache_dir]
    /\ UNCHANGED <<cache_dir, first_cached, search_ret, enable_memory, ingestVars, readerVars,
                   memVars>>

\* --------------------------------------- core.py: TradingKnowledgeBase
\* clear_memory forgetting the buffer.
KeepBuffer(buffer) == buffer

\* Line 364: self.stm.conversation_buffer.clear()
ListClear(buffer) == <<>>

\* clear_memory, lines 362-367.
ClearMemory ==
    /\ IF enable_memory
          THEN /\ current_context' = EmptyDict
               /\ temp_set' = [k \in Keys |-> Untracked("unset")]
               /\ ctx_set' = NoCalls
               /\ conversation_buffer' = ListClear(conversation_buffer)
               /\ snap' = [snap EXCEPT !.same_dict = FALSE,
                                       !.buffer = IF snap.same_list THEN <<>> ELSE @]
          ELSE UNCHANGED <<current_context, temp_set, ctx_set, conversation_buffer,
                           snap>>
    /\ stm_ret' = [op |-> "clear_memory", kind |-> "ok",
                   had_entries |-> Len(conversation_buffer),
                   had_keys |-> DOMAIN current_context]
    /\ UNCHANGED <<max_entries, now, n_added, ltmVars, ingestVars, readerVars,
                   extVars>>

\* ------------------------------ core.py: get_research_history, lines 379-411
\* Context keys core.py writes (lines 256 and 276-277).
ResearchKeys == {"current_research_query", "last_research_results"}

\* dict.get(key, default) on a buffer entry (a dict with the keys of line 29-34).
EntryGet(entry, key, default) == IF key \in DOMAIN entry THEN entry[key] ELSE default

\* Lines 388-392 and 395-399.
ResearchItems(context) ==
    (IF "last_research_results" \in DOMAIN context
        THEN <<[type |-> "research_results",
                data |-> context["last_research_results"],
                timestamp |-> IF "last_research_session" \in DOMAIN context
                                 THEN context["last_research_session"]
                                 ELSE Plain(-1)]>>
        ELSE <<>>)
    \o (IF "current_research_query" \in DOMAIN context
           THEN <<[type |-> "current_query",
                   data |-> context["current_research_query"],
                   timestamp |-> "current"]>>
           ELSE <<>>)

\* Lines 403-409.
ConversationItem(entry) ==
    [type |-> "conversation",
     user_input |-> EntryGet(entry, "user_input", ""),
     ai_response |-> EntryGet(entry, "ai_response", ""),
     timestamp |-> EntryGet(entry, "timestamp", -1),
     metadata |-> EntryGet(entry, "metadata", "{}")]

\* Lines 384-411: history[-limit:]
ResearchHistory(limit) ==
    LET recent == PySuffix(conversation_buffer, limit)
        history == ResearchItems(current_context)
                      \o [i \in 1..Len(recent) |-> ConversationItem(recent[i])]
    IN PySuffix(history, limit)

GetResearchHistory(limit) ==
    /\ stm_ret' = [op |-> "get_research_history", limit |-> limit,
                   val |-> IF enable_memory THEN ResearchHistory(limit) ELSE <<>>]
    /\ UNCHANGED <<max_entries, ctx_set, snap, conversation_buffer, current_context, now,
                   n_added, temp_set, ltmVars, ingestVars, readerVars, extVars>>

\* get_state, lines 138-141: the dict refers to the two live objects.
GetState ==
    /\ snap' = [taken |-> TRUE,
                buffer |-> conversation_buffer, context |-> current_context,
                same_list |-> TRUE, same_dict |-> TRUE,
                orig_buffer |-> conversation_buffer,
                orig_context |-> current_context]
    /\ stm_ret' = [op |-> "get_state"]
    /\ UNCHANGED <<max_entries, ctx_set, conversation_buffer, current_context, now,
                   n_added, temp_set, ltmVars, ingestVars, readerVars, extVars>>

\* The interactions of a state saved by another STM (one with a larger max_entries).
SavedInteraction(i) == Interaction("Saved user " \o ToString(i),
                                   "Saved assistant " \o ToString(i), "None", 0)
\* States handed to load_state that did not come from this STM's get_state:
\* a dict with both keys, or the empty dict.
SavedStates ==
    {[has_keys |-> TRUE, conversation_buffer |-> [i \in 1..k |-> SavedInteraction(i)],
      current_context |-> EmptyDict] : k \in {MaxEntriesBound + 1}}
    \cup {[has_keys |-> FALSE, conversation_buffer |-> <<>>,
           current_context |-> EmptyDict]}

\* What the ghosts temp_set know of a mapping that was loaded.
LoadedTempSet(context) ==
    [k \in Keys |-> IF TempSlot(k) \in DOMAIN context THEN Untracked("other")
                                                      ELSE Untracked("unset")]

\* load_state(s), lines 149-150, with the dict get_state returned last: the
\* STM refers to the snapshot's list and dict again.
LoadSnapshot ==
    /\ snap.taken
    /\ conversation_buffer' = snap.buffer
    /\ current_context' = snap.context
    /\ snap' = [snap EXCEPT !.same_list = TRUE, !.same_dict = TRUE]
    /\ temp_set' = LoadedTempSet(snap.context)
    /\ ctx_set' = NoCalls
    /\ stm_ret' = [op |-> "load_state", from |-> "get_state"]
    /\ UNCHANGED <<max_entries, now, n_added, ltmVars, ingestVars, readerVars,
                   extVars>>

\* load_state(state), lines 149-150, with a saved state (state.get gives []
\* and {} for a missing key).
LoadState(state) ==
    /\ conversation_buffer' = state.conversation_buffer
    /\ current_context' = state.current_context
    /\ snap' = [snap EXCEPT !.same_list = FALSE, !.same_dict = FALSE]
    /\ temp_set' = LoadedTempSet(state.current_context)
    /\ ctx_set' = NoCalls
    /\ stm_ret' = [op |-> "load_state", from |-> "saved"]
    /\ UNCHANGED <<max_entries, now, n_added, ltmVars, ingestVars, readerVars,
                   extVars>>

InitExt ==
    /\ cache_dir = NoFiles
    /\ cache_ret = NoRet
    /\ first_cached = [paper_id \in PaperIds |-> NotCached]
    /\ search_ret = NoRet
    /\ enable_memory = TRUE

\* One session: the buffer, the reads and the context writers (the clock stands).
NextSTM ==
    \/ \E metadata \in {"None", "{}"} : AddInteraction(metadata)
    \/ \E key \in CtxKeys, value \in Values : UpdateContext(key, value)
    \/ \E key \in CtxKeys \cup {"None"}, default \in Defaults : GetContext(key, default)
    \/ ClearContext
    \/ \E n \in 0..MaxEntriesBound : GetRecentHistory(n)
    \/ GetFormattedHistory
    \/ \E key \in Keys, value \in Values, ttl \in TTLs : SetTempData(key, value, ttl)
    \/ \E key \in Keys, default \in Defaults : GetTempData(key, default)

\* The context mapping and its temp entries while time passes.
NextTemp ==
    \/ \E key \in CtxKeys, value \in Values : UpdateContext(key, value)
    \/ \E key \in CtxKeys \cup {"None"}, default \in Defaults : GetContext(key, default)
    \/ ClearContext
    \/ \E key \in Keys, value \in Values, ttl \in TTLs : SetTempData(key, value, ttl)
    \/ \E key \in Keys, default \in Defaults : GetTempData(key, default)
    \/ Tick

\* A session that promotes its interactions into a store that can fail.
NextPromote ==
    \/ \E metadata \in {"None", "{}"} : AddInteraction(metadata)
    \/ \E key \in Keys, value \in {1} : UpdateContext(key, value)
    \/ \E embedding \in PromoteEmbeddings, metadata \in PromoteMetas :
          PromoteToLtm(embedding, metadata)
    \/ DbFail
    \/ DbRecover

\* The long-term store used directly.
NextLTM ==
    \/ \E e \in Embeddings : AddConversationEntry(e, "q", "a", <<>>)
    \/ \E id \in 1..MaxRows : DeleteConversation(id)
    \/ \E id \in 1..MaxRows : GetConversationById(id)
    \/ \E limit \in 0..MaxLimit : GetRecentConversations(limit)
    \/ \E q \in Embeddings, max_distance \in MaxDistances, limit \in 0..MaxLimit :
          GetSimilarConversations(q, max_distance, limit)
    \/ DbFail
    \/ DbRecover

\* Keys of a session that uses the context mapping only (test_context_management).
ContextKeys == CtxKeys \cup {"key1"}

\* The context mapping used through update_context, get_context and
\* clear_context only.
NextContext ==
    \/ \E key \in ContextKeys, value \in Values : UpdateContext(key, value)
    \/ \E key \in ContextKeys \cup {"None"}, default \in Defaults :
          GetContext(key, default)
    \/ ClearContext

\* An LTM object: its paper cache and its conversation table.
NextCache ==
    \/ \E paper_id \in PaperIds, text \in CacheTexts : CachePaper(paper_id, text)
    \/ \E paper_id \in PaperIds : RetreivePaperFromCache(paper_id)
    \/ \E e \in PromoteEmbeddings : AddConversationEntry(e, "q", "a", <<>>)
    \/ \E id \in 1..MaxRows : GetConversationById(id)
    \/ DbFail
    \/ DbRecover

\* One STM whose state is taken with get_state and put back with load_state.
NextSnapshot ==
    \/ AddInteraction("None")
    \/ \E key \in Keys : UpdateContext(key, 1)
    \/ \E key \in Keys : SetTempData(key, 1, 1)
    \/ ClearContext
    \/ GetState
    \/ LoadSnapshot
    \/ \E state \in SavedStates : LoadState(state)

\* A TradingKnowledgeBase whose STM (tkb.stm, present when memory is enabled)
\* is written to and then cleared.
NextKB ==
    \/ enable_memory /\ \E metadata \in {"None", "{}"} : AddInteraction(metadata)
    \/ enable_memory /\ \E key \in CtxKeys, value \in Values : UpdateContext(key, value)
    \/ enable_memory /\ \E key \in ResearchKeys : UpdateContext(key, 1)
    \/ \E limit \in 0..MaxLimit : GetResearchHistory(limit)
    \/ enable_memory /\ \E key \in Keys, value \in Values, ttl \in TTLs :
                            SetTempData(key, value, ttl)
    \/ ClearMemory

\* ------------------------------------------------------- specifications
Init == InitIngest /\ InitReader /\ InitSTM(DefaultMaxEntries) /\ InitLTM /\ InitExt

SpecIngest == Init /\ [][NextIngest]_vars

InitSession ==
    /\ InitIngest /\ InitReader /\ InitLTM /\ InitExt
    /\ \E m \in 0..MaxEntriesBound : InitSTM(m)

SpecSTM == InitSession /\ [][NextSTM]_vars

SpecTemp == Init /\ [][NextTemp]_vars

SpecPromote == InitSession /\ [][NextPromote]_vars

SpecLTM == Init /\ [][NextLTM]_vars

SpecContext == Init /\ [][NextContext]_vars

SpecCache == Init /\ [][NextCache]_vars

\* The tool started on the files of earlier ingestion runs.
InitSearch ==
    /\ InitFiles /\ InitReader /\ InitSTM(DefaultMaxEntries) /\ InitLTM /\ InitExt

SpecSearch == InitSearch /\ [][NextSearch]_vars

\* TradingKnowledgeBase(enable_memory=...), lines 61-63 (STM() has the
\* default max_entries).
InitKB ==
    /\ InitIngest /\ InitReader /\ InitSTM(DefaultMaxEntries) /\ InitLTM
    /\ cache_dir = NoFiles
    /\ cache_ret = NoRet
    /\ first_cached = [paper_id \in PaperIds |-> NotCached]
    /\ search_ret = NoRet
    /\ enable_memory \in BOOLEAN

SpecKB == InitKB /\ [][NextKB]_vars

SpecSnapshot == InitSession /\ [][NextSnapshot]_vars

\* ================================================================ claims
\* ---------------------------------------------------------------- ingestion
\* C1: positional coupling under concurrent ingestion: once the (first) parallel
\* run has written the index, vector i of the index is the embedding of the
\* abstract on line i of the catalog file, for every position i.
C1_PositionalCoupling ==
    (run = 1 /\ main_pc = "done" /\ index_file.exists) =>
        \A i \in 1..Len(index_file.vectors) :
            /\ i <= Len(catalog_file)
            /\ index_file.vectors[i] = ModelEncode(catalog_file[i].abstract)

\* C2: length equality: in every state an ingestion process leaves behind
\* (completed or aborted) the catalog file has as many records as the index
\* has vectors (an index that was never written has none).
C2_LengthEquality ==
    main_pc \in {"done", "crashed"} =>
        Len(catalog_file) = Len(index_file.vectors)

\* C3: atomic append as seen by readers: a reader that has loaded the index
\* and the catalog holds as many vectors as catalog records.
C3_ReaderSeesEqualLengths ==
    reader_pc = "ready" =>
        Len(reader_index.vectors) = Cardinality(DOMAIN reader_mapping)

\* C4: failure locality: when a run has ended, every document of the batch
\* whose steps all succeeded is in the catalog and in the index, whatever
\* happened to the other documents.
C4_FailureLocality ==
    main_pc \in {"done", "crashed"} =>
        \A p \in Papers :
            task[p].result = "emb" =>
                /\ \E i \in 1..Len(catalog_file) :
                      catalog_file[i] = CatalogLine(p, task[p].abstract)
                /\ \E i \in 1..Len(index_file.vectors) :
                      index_file.vectors[i] = ModelEncode(task[p].abstract)

\* ---------------------------------------------------------------- STM
\* C5: FIFO eviction: with max_entries >= 1, after max_entries + m calls of
\* add_interaction (m >= 1) the buffer holds exactly max_entries interactions,
\* the first is the one of call m + 1 and the rest follow in insertion order,
\* whatever reads were interleaved.
C5_FifoEviction ==
    (max_entries >= 1 /\ n_added > max_entries) =>
        /\ Len(conversation_buffer) = max_entries
        /\ \A i \in 1..max_entries :
              /\ conversation_buffer[i].user = UserText(n_added - max_entries + i)
              /\ conversation_buffer[i].assistant =
                    AssistantText(n_added - max_entries + i)

\* Two entries were evicted from a buffer of one and a read has just run.
C5_Witness ==
    /\ max_entries = 1
    /\ n_added = 3
    /\ stm_ret.op = "get_recent_history"
    /\ conversation_buffer[1].user = UserText(3)

\* C6: TTL expiry: get_temp_data(k, default) on a key whose slot holds the
\* entry of set_temp_data(k, v, ttl) made at time t returns v strictly before
\* t + ttl and the default from t + ttl on (also for a falsy v and for ttl = 0);
\* on a key that holds no entry it returns the default.
C6_TtlExpiry ==
    stm_ret.op = "get_temp_data" =>
        LET s == temp_set[stm_ret.key] IN
        /\ s.state = "set" =>
              /\ stm_ret.kind = "ok"
              /\ stm_ret.val = IF stm_ret.at < s.t + s.ttl THEN s.value
                                                          ELSE stm_ret.default
        /\ s.state = "unset" =>
              /\ stm_ret.kind = "ok"
              /\ stm_ret.val = stm_ret.default

\* A read exactly at the expiry time of an entry that lived for a while.
C6_Witness ==
    /\ stm_ret.op = "get_temp_data"
    /\ temp_set[stm_ret.key].state = "set"
    /\ temp_set[stm_ret.key].ttl > 0
    /\ stm_ret.at = temp_set[stm_ret.key].t + temp_set[stm_ret.key].ttl
    /\ stm_ret.val = stm_ret.default

\* What promote_to_ltm has returned and which add it made.
C7_Returned ==
    stm_ret.op = "promote_to_ltm" =>
        IF conversation_buffer = <<>>
           THEN stm_ret.kind = "returned_none" /\ stm_ret.calls = <<>>
           ELSE LET last == conversation_buffer[Len(conversation_buffer)] IN
                /\ Len(stm_ret.calls) = 1
                /\ stm_ret.calls[1].question_text = last.user
                /\ stm_ret.calls[1].answer_text = last.assistant
                /\ stm_ret.calls[1].question_embedding = stm_ret.embedding
                /\ stm_ret.kind \in {"ok", "raise"}
                /\ stm_ret.kind = "ok" =>
                      LET row == ltm_rows[Len(ltm_rows)] IN
                      /\ row.id = stm_ret.val
                      /\ row.question_text = last.user
                      /\ row.answer_text = last.assistant
                      /\ row.question_embedding = stm_ret.embedding

\* What a promote_to_ltm step changes.
C7_Step ==
    (\E embedding \in PromoteEmbeddings, metadata \in PromoteMetas :
        PromoteToLtm(embedding, metadata)) =>
        /\ UNCHANGED <<conversation_buffer, current_context>>
        /\ Len(ltm_rows') = Len(ltm_rows)
              + (IF conversation_buffer # <<>> /\ db_up THEN 1 ELSE 0)

\* C7: promotion: with a non-empty buffer promote_to_ltm makes exactly one LTM
\* add, of the user text and response text of the most recently added
\* interaction with the supplied embedding, and returns the id LTM assigned;
\* with an empty buffer it makes no add and returns None; the buffer and the
\* context are unchanged.
C7_Promotion == []C7_Returned /\ [][C7_Step]_vars

\* A promotion that succeeded from a buffer of two interactions.
C7_Witness ==
    /\ stm_ret.op = "promote_to_ltm"
    /\ stm_ret.kind = "ok"
    /\ Len(conversation_buffer) = 2
    /\ ltm_rows[Len(ltm_rows)].question_text = UserText(2)

\* C8: when the store cannot be reached, the add_conversation_entry made by
\* promote_to_ltm ends in a failure (no id, no None), creates no record, and
\* the failure reaches the caller of promote_to_ltm.
C8_AddFailurePropagated ==
    [][((\E embedding \in PromoteEmbeddings, metadata \in PromoteMetas :
            PromoteToLtm(embedding, metadata))
        /\ conversation_buffer # <<>> /\ ~db_up) =>
            /\ ltm_ret'.op = "add_conversation_entry"
            /\ ltm_ret'.kind = "raise"
            /\ stm_ret'.op = "promote_to_ltm"
            /\ stm_ret'.kind = "raise"
            /\ ltm_rows' = ltm_rows
            /\ ltm_next_id' = ltm_next_id]_vars

\* A promotion has failed while the store was down.
C8_Witness ==
    /\ ~db_up
    /\ stm_ret.op = "promote_to_ltm"
    /\ stm_ret.kind = "raise"
    /\ ltm_ret.op = "add_conversation_entry"
    /\ ~ltm_ret.reachable

\* ---------------------------------------------------------------- LTM
\* C9: similarity threshold: get_similar_conversations returns at most limit
\* records, each a stored record at distance <= max_distance, in
\* non-decreasing distance order, and it leaves out a qualifying record only
\* when limit records at no greater distance are returned.
C9_SimilarityThreshold ==
    ltm_ret.op = "get_similar_conversations" =>
        LET res == ltm_ret.val
            q == ltm_ret.q
            Dist(i) == L2Distance(ltm_rows[i].question_embedding, q)
        IN
        /\ Len(res) <= ltm_ret.limit
        /\ \A j \in 1..Len(res) :
              /\ res[j].distance <= ltm_ret.max_distance
              /\ \E i \in 1..Len(ltm_rows) : res[j] = SimilarRecord(ltm_rows[i], q)
        /\ \A j, k \in 1..Len(res) : j < k => res[j].distance <= res[k].distance
        /\ \A i \in 1..Len(ltm_rows) :
              (Dist(i) <= ltm_ret.max_distance
               /\ ~ \E j \in 1..Len(res) : res[j].id = ltm_rows[i].id) =>
                  /\ Len(res) = ltm_ret.limit
                  /\ \A j \in 1..Len(res) : res[j].distance <= Dist(i)

IsPrefix(s, t) == Len(s) <= Len(t) /\ \A i \in 1..Len(s) : s[i] = t[i]

\* C10: monotonic prefix: two queries answered by the store over the same
\* content, with the same embedding and max_distance and limits l1 < l2 (the
\* claim's case of two different limits): the result for l1 is a prefix of
\* the result for l2.
C10_MonotonicPrefix ==
    (/\ ltm_ret.op = "get_similar_conversations"
     /\ ltm_prev.op = "get_similar_conversations"
     /\ ltm_ret.reachable /\ ltm_prev.reachable
     /\ ltm_ret.q = ltm_prev.q
     /\ ltm_ret.max_distance = ltm_prev.max_distance) =>
        /\ ltm_prev.limit < ltm_ret.limit => IsPrefix(ltm_prev.val, ltm_ret.val)
        /\ ltm_ret.limit < ltm_prev.limit => IsPrefix(ltm_ret.val, ltm_prev.val)

\* C11: delete by id: delete_conversation(id) returns True exactly when a
\* record with that id was stored and removes that record and no other; for
\* an id that is not stored it returns False and changes nothing; no id is
\* handed out again.
C11_DeleteById ==
    [][\A id \in 1..MaxRows :
          DeleteConversation(id) =>
              /\ ltm_ret'.val = (\E i \in 1..Len(ltm_rows) : ltm_rows[i].id = id)
              /\ ltm_rows' = SelectSeq(ltm_rows, LAMBDA r : r.id # id)
              /\ ltm_next_id' = ltm_next_id]_vars

\* C12: content cache round trip: cache_paper(id, text) completes and leaves
\* the file <id>.txt holding exactly text in the cache directory (which is
\* what a following retrieval of id reads).
C12_CacheRoundTrip ==
    cache_ret.op = "cache_paper" =>
        /\ cache_ret.kind = "ok"
        /\ (cache_ret.paper_id \o ".txt") \in DOMAIN cache_dir
        /\ cache_dir[cache_ret.paper_id \o ".txt"] = cache_ret.text

\* C13: explicit not-cached result: retrieval of an id that has no cached
\* file returns, without raising, a result that is no possible cached text
\* and not the empty content.
C13_NotCachedExplicit ==
    (cache_ret.op = "retreive_paper_from_cache" /\ ~cache_ret.cached) =>
        /\ cache_ret.kind = "ok"
        /\ cache_ret.val \notin CacheTexts
        /\ cache_ret.val # ""

\* ---------------------------------------------------------------- search
\* C14: search size and order: on a loaded index of N >= 1 vectors whose
\* positions all have a catalog entry, a query with k >= 1 returns exactly
\* min(k, N) papers, by non-increasing similarity_score (non-decreasing
\* distance), num_results is the number of papers, and every paper is the
\* catalog entry of a position of the index (no placeholder).
C14_SizeAndOrder ==
    LET N == Len(reader_index.vectors) IN
    (/\ search_ret.op = "_run"
     /\ reader_pc = "ready"
     /\ N >= 1
     /\ \A pos \in 0..(N - 1) : Str(pos) \in DOMAIN reader_mapping) =>
        LET papers == search_ret.papers
            hits == search_ret.hits
        IN
        /\ search_ret.kind = "json"
        /\ Len(papers) = (IF search_ret.k < N THEN search_ret.k ELSE N)
        /\ search_ret.num_results = Len(papers)
        /\ \A i, j \in 1..Len(papers) :
              i < j => papers[i].similarity_score >= papers[j].similarity_score
        /\ \A j \in 1..Len(papers) :
              /\ hits[j].idx \in 0..(N - 1)
              /\ papers[j].arxiv_id = reader_mapping[Str(hits[j].idx)].id
              /\ papers[j].abstract = reader_mapping[Str(hits[j].idx)].abstract
              /\ 1 - papers[j].similarity_score =
                    SquaredL2(VectorCoord(reader_index.vectors[hits[j].idx + 1]),
                              EncodeQuery(search_ret.query))

\* A query for more papers than the index holds, at different distances, the
\* farther document first in the index.
C14_Witness ==
    /\ search_ret.op = "_run"
    /\ search_ret.kind = "json"
    /\ reader_pc = "ready"
    /\ Len(reader_index.vectors) = 2
    /\ \A pos \in 0..1 : Str(pos) \in DOMAIN reader_mapping
    /\ search_ret.k > 2
    /\ search_ret.query = "alpha"
    /\ reader_index.vectors[1].emb_of.doc = 2
    /\ reader_index.vectors[2].emb_of.doc = 1
    /\ Len(search_ret.papers) = 2
    /\ search_ret.papers[1].arxiv_id = 1

\* C15: empty index: with no index file and no catalog record on disk, a
\* query returns the empty result (num_results 0, no papers), not an error.
C15_EmptyIndex ==
    (search_ret.op = "_run" /\ ~index_file.exists /\ catalog_file = <<>>) =>
        /\ search_ret.kind = "json"
        /\ search_ret.num_results = 0
        /\ search_ret.papers = <<>>

\* C16: unresolvable hits are skipped: when a position of the loaded index
\* has no catalog entry and the query asks for every position (k >= N), the
\* query does not fail: it returns exactly the hits that resolve, in the
\* order of the index scan, each with the catalog entry of its own position.
C16_UnresolvableSkipped ==
    LET N == Len(reader_index.vectors) IN
    (/\ search_ret.op = "_run"
     /\ reader_pc = "ready"
     /\ search_ret.k >= N
     /\ \E pos \in 0..(N - 1) : Str(pos) \notin DOMAIN reader_mapping) =>
        LET kept == SelectSeq(search_ret.hits,
                              LAMBDA h : Str(h.idx) \in DOMAIN reader_mapping)
        IN
        /\ search_ret.kind = "json"
        /\ Len(search_ret.papers) = Len(kept)
        /\ \A j \in 1..Len(kept) :
              /\ search_ret.papers[j].arxiv_id = reader_mapping[Str(kept[j].idx)].id
              /\ search_ret.papers[j].abstract =
                    reader_mapping[Str(kept[j].idx)].abstract
              /\ 1 - search_ret.papers[j].similarity_score = kept[j].distance

\* ---------------------------------------------------------------- ingestion
\* C17: coupling across restarts: after a second (or later) ingestion process
\* over the same directory has completed with every document successful,
\* the catalog file and the index have the same number of entries and line i
\* of the catalog denotes the document of vector i.
C17_CouplingAcrossRestarts ==
    (run >= 2 /\ main_pc = "done" /\ \A p \in Papers : task[p].result = "emb") =>
        /\ Len(catalog_file) = Len(index_file.vectors)
        /\ \A i \in 1..Len(catalog_file) :
              i <= Len(index_file.vectors) =>
                 index_file.vectors[i].emb_of.doc = catalog_file[i].id

\* C18: minimum text threshold (first run over an empty directory): a
\* document that was rejected (download failed, abstract missing or shorter
\* than 20 characters) is in neither file; a document that was embedded from
\* an abstract of 20 characters or more is in both.
C18_MinTextThreshold ==
    (run = 1 /\ main_pc \in {"done", "crashed"}) =>
        \A p \in Papers :
            /\ task[p].result = "None" =>
                  /\ \A i \in 1..Len(catalog_file) : catalog_file[i].id # p
                  /\ \A i \in 1..Len(index_file.vectors) :
                        index_file.vectors[i].emb_of.doc # p
            /\ task[p].result = "emb" =>
                  /\ task[p].abstract.len >= MinAbstractLen
                  /\ \E i \in 1..Len(catalog_file) : catalog_file[i].id = p
                  /\ \E i \in 1..Len(index_file.vectors) :
                        index_file.vectors[i].emb_of.doc = p

\* ---------------------------------------------------------------- STM
\* C19: context mapping: in a session of update_context, clear_context and
\* get_context calls, get_context() returns exactly the pairs set by
\* update_context since the last clear_context, each key with its latest
\* value; get_context(key, default) returns that value, or the default for a
\* key not set; after clear_context the mapping is empty.
C19_ContextMapping ==
    /\ stm_ret.op = "get_context" =>
          IF stm_ret.key = "None"
             THEN /\ stm_ret.kind = "dict"
                  /\ DOMAIN stm_ret.val = DOMAIN ctx_set
                  /\ \A k \in DOMAIN ctx_set : stm_ret.val[k] = Plain(ctx_set[k])
          ELSE IF stm_ret.key \in DOMAIN ctx_set
             THEN stm_ret.kind = "entry" /\ stm_ret.val = Plain(ctx_set[stm_ret.key])
          ELSE stm_ret.kind = "default" /\ stm_ret.val = stm_ret.default
    /\ stm_ret.op = "clear_context" => DOMAIN current_context = {}

\* The whole mapping is read after a key was set to 0 and another to 1.
C19_Witness ==
    /\ stm_ret.op = "get_context"
    /\ stm_ret.key = "None"
    /\ \E k1, k2 \in DOMAIN ctx_set : ctx_set[k1] = 0 /\ ctx_set[k2] = 1
    /\ DOMAIN ctx_set # ContextKeys

\* ---------------------------------------------------------------- core.py
\* After clear_memory with memory enabled the buffer and the context are empty.
C20_Cleared ==
    stm_ret.op = "clear_memory" =>
        /\ stm_ret.kind = "ok"
        /\ enable_memory =>
              /\ Len(conversation_buffer) = 0
              /\ DOMAIN current_context = {}

\* With memory disabled clear_memory changes nothing.
C20_Step ==
    (ClearMemory /\ ~enable_memory) =>
        UNCHANGED <<max_entries, conversation_buffer, current_context, ltmVars>>

\* C20: clear_memory: with memory enabled, after clear_memory() the STM
\* buffer has length 0 and the STM context mapping has length 0, whatever
\* interactions, context entries and temp data were stored; with memory
\* disabled it changes nothing and does not fail.
C20_ClearMemory == []C20_Cleared /\ [][C20_Step]_vars

\* clear_memory has just run on a session that held two interactions, a
\* context entry and a temp entry.
C20_Witness ==
    /\ stm_ret.op = "clear_memory"
    /\ enable_memory
    /\ stm_ret.had_entries >= 2
    /\ \E k \in Keys : {k, TempSlot(k)} \subseteq stm_ret.had_keys
    /\ conversation_buffer = <<>>

\* ---------------------------------------------------------------- STM
\* C21: truncation for every bound: for every max_entries >= 0 and every
\* number n of add_interaction calls, the buffer holds exactly the most recent
\* min(n, max_entries) interactions.
C21_TruncationEveryBound ==
    LET m == IF n_added < max_entries THEN n_added ELSE max_entries IN
    /\ Len(conversation_buffer) = m
    /\ \A i \in 1..m :
          conversation_buffer[i].user = UserText(n_added - m + i)

\* The slot of key k holds an entry of set_temp_data that has expired.
C22_Expired(k) ==
    /\ TempSlot(k) \in DOMAIN current_context
    /\ current_context[TempSlot(k)].kind = "dict"
    /\ ~NotExpired(current_context[TempSlot(k)], now)

\* get_temp_data leaves the context mapping as it was.
C22_ReadFrame ==
    (\E key \in Keys, default \in Defaults : GetTempData(key, default)) =>
        current_context' = current_context

\* An expired entry is reported as absent.
C22_Absent ==
    \A k \in Keys, d \in Defaults :
        C22_Expired(k) => TempOutcome(k, d) = [kind |-> "ok", val |-> d]

\* An expired entry is still in its slot after every step but a
\* set_temp_data of its key and a clearing of the context.
C22_StaysStored ==
    \A k \in Keys :
        C22_Expired(k) =>
            \/ /\ TempSlot(k) \in DOMAIN current_context'
               /\ current_context'[TempSlot(k)] = current_context[TempSlot(k)]
            \/ \E value \in Values, ttl \in TTLs : SetTempData(k, value, ttl)
            \/ ClearContext

\* C22: lazy expiry leaves state untouched: get_temp_data on an expired, live
\* or absent key does not modify the context mapping; an expired temp entry
\* stays stored until set_temp_data overwrites that key or the context is
\* cleared, and while expired it is reported as absent by get_temp_data.
C22_LazyExpiry == [][C22_ReadFrame /\ C22_Absent /\ C22_StaysStored]_vars

\* ---------------------------------------------------------------- LTM
\* C23: store failures are surfaced: when the store is unreachable, the
\* outcome of get_similar_conversations, get_recent_conversations,
\* get_conversation_by_id and delete_conversation differs from the outcome
\* for 'no matching record' (empty list, None, False).
C23_ReadFailuresSurfaced ==
    (ltm_ret.op \in {"get_similar_conversations", "get_recent_conversations",
                     "get_conversation_by_id", "delete_conversation"}
     /\ ~ltm_ret.reachable) =>
        IF ltm_ret.op = "get_conversation_by_id" THEN ltm_ret.kind # "None"
        ELSE IF ltm_ret.op = "delete_conversation" THEN ltm_ret.val # FALSE
        ELSE ltm_ret.val # <<>>

\* C24: write-once content cache: after cache_paper was called for a paper
\* id, retrieval of that id returns the text of the first call, whatever
\* cache operations followed.
C24_WriteOnce ==
    (/\ cache_ret.op = "retreive_paper_from_cache"
     /\ first_cached[cache_ret.paper_id].called) =>
        cache_ret.val = first_cached[cache_ret.paper_id].text

\* ---------------------------------------------------------------- search
\* C25: catalog loading keeps line numbers: once the catalog is loaded, every
\* well-formed line i (0-based) is registered under position i, a malformed
\* line is registered nowhere, and nothing else is registered.
C25_LineNumbersKept ==
    reader_pc = "ready" =>
        /\ \A i \in 0..(Len(catalog_file) - 1) :
              IF WellFormed(catalog_file[i + 1])
                 THEN /\ Str(i) \in DOMAIN reader_mapping
                      /\ reader_mapping[Str(i)] = catalog_file[i + 1]
                 ELSE Str(i) \notin DOMAIN reader_mapping
        /\ DOMAIN reader_mapping \subseteq {Str(i) : i \in 0..(Len(catalog_file) - 1)}

\* A malformed first line, and the second line registered under position 1.
C25_Witness ==
    /\ reader_pc = "ready"
    /\ Len(catalog_file) >= 2
    /\ ~WellFormed(catalog_file[1])
    /\ WellFormed(catalog_file[2])
    /\ Str(1) \in DOMAIN reader_mapping
    /\ reader_mapping[Str(1)] = catalog_file[2]
    /\ Str(0) \notin DOMAIN reader_mapping

\* ---------------------------------------------------------------- STM
\* C26: load_state keeps the buffer bound: with max_entries >= 1, whatever
\* STM operations ran (load_state included), the buffer holds at most
\* max_entries interactions.
C26_LoadStateKeepsBound ==
    max_entries >= 1 => Len(conversation_buffer) <= max_entries

\* C27: persistent context and temp data do not interfere: update_context(k1,
\* v) changes the outcome of no get_temp_data(k2); set_temp_data(k2, v, ttl)
\* changes neither the set of keys of get_context() nor what get_context(k1)
\* finds.
C27_NoInterference ==
    [][/\ (\E k1 \in CtxKeys, v \in Values : UpdateContext(k1, v)) =>
             \A k2 \in Keys, d \in Defaults : TempOutcome(k2, d)' = TempOutcome(k2, d)
       /\ (\E k2 \in Keys, v \in Values, ttl \in TTLs : SetTempData(k2, v, ttl)) =>
             /\ DOMAIN current_context' = DOMAIN current_context
             /\ \A k1 \in DOMAIN current_context :
                   current_context'[k1] = current_context[k1]]_vars

\* C28: snapshot round trip: the state get_state returned keeps the buffer
\* and the context it had when it was returned, whatever the STM does next,
\* and load_state of it restores exactly that buffer and that context.
C28_SnapshotRoundTrip ==
    snap.taken =>
        /\ snap.buffer = snap.orig_buffer
        /\ snap.context = snap.orig_context
        /\ (stm_ret.op = "load_state" /\ stm_ret.from = "get_state") =>
              /\ conversation_buffer = snap.orig_buffer
              /\ current_context = snap.orig_context

\* ---------------------------------------------------------------- search
\* C29: ranks are consecutive: the papers of a query result carry the ranks
\* 1, 2, ..., num_results in this order.
C29_RanksConsecutive ==
    (search_ret.op = "_run" /\ search_ret.kind = "json") =>
        /\ search_ret.num_results = Len(search_ret.papers)
        /\ \A j \in 1..Len(search_ret.papers) : search_ret.papers[j].rank = j

\* ---------------------------------------------------------------- core.py
\* C30: research history reflects stored interactions: every 'conversation'
\* item of get_research_history(limit) carries the user text and the response
\* text of an interaction of the buffer, and at most limit items are returned.
C30_ResearchHistory ==
    stm_ret.op = "get_research_history" =>
        /\ Len(stm_ret.val) <= stm_ret.limit
        /\ \A i \in 1..Len(stm_ret.val) :
              stm_ret.val[i].type = "conversation" =>
                 \E j \in 1..Len(conversation_buffer) :
                    /\ stm_ret.val[i].user_input = conversation_buffer[j].user
                    /\ stm_ret.val[i].ai_response = conversation_buffer[j].assistant

====
